---- MODULE Spec2Model ----
(***************************************************************************)
(* Model of the page relevance scoring, page selection and payload         *)
(* construction of the trigger statement extraction pipeline               *)
(* (scripts/page_selector.py, scripts/payload_builder.py,                  *)
(* scripts/pdf_processor.py, scripts/main.py) and of the batch loop        *)
(* (scripts/batch_runner.py).                                              *)
(*                                                                         *)
(* Python strings are TLA+ strings, a PageData object is a record with the *)
(* dataclass's five fields, a Python list is a sequence.                   *)
(***************************************************************************)
EXTENDS Integers, Sequences, FiniteSets, TLC

VARIABLES
    TOP_PAGES_TO_SELECT,     \* config.TOP_PAGES_TO_SELECT of this process
    INCLUDE_NEIGHBOR_PAGES,  \* config.INCLUDE_NEIGHBOR_PAGES of this process
    pdf,                     \* the PDF file handed to process_pdf
    pages_data,              \* list[PageData] of the document
    scored,                  \* positions of pages_data the scorer has processed
    top_pages,               \* select_relevant_pages: local top_pages
    selected_page_nums,      \* select_relevant_pages: local selected_page_nums
    selected_pages,          \* list returned by select_relevant_pages
    payload,                 \* <<>> is None, <<s>> is the string s
    result,                  \* result dict of prepare_pdf_payload
    pc,                      \* position of the caller
    calls,                   \* functions called so far, in call order
    raised,                  \* TRUE when a call raised an exception
    edit,                    \* the caller's edit of a page text, if any
    returned,                \* the page and the value of the last scorer call
    all_pdfs,                \* run_batch_process: the PDF files of the folder
    output,                  \* the list stored in extracted_triggers.json
    files_to_process,        \* run_batch_process: local files_to_process
    batch_files,             \* run_batch_process: local batch_files
    result_metas,            \* result dicts of the requests of the batch
    results_map,             \* what the Batch API answered, by request
    submitted                \* names of the files submitted so far, in order

\* the variables of run_batch_process
batch_vars == <<all_pdfs, output, files_to_process, batch_files, result_metas,
                results_map, submitted>>

\* the variables of the pipeline on one document
pipeline_vars == <<TOP_PAGES_TO_SELECT, INCLUDE_NEIGHBOR_PAGES, pdf, pages_data, scored,
                   top_pages, selected_page_nums, selected_pages, payload, result,
                   calls, edit, returned>>

vars == <<TOP_PAGES_TO_SELECT, INCLUDE_NEIGHBOR_PAGES, pdf, pages_data, scored,
          top_pages, selected_page_nums, selected_pages, payload, result, pc,
          calls, raised, edit, returned, all_pdfs, output, files_to_process,
          batch_files, result_metas, results_map, submitted>>

(* Bounds of the model *)

MaxPages == 4
MaxScore == 3
MaxCallerLen == 2
MaxDocPages == 2
MaxCalls == 2
MaxFiles == 6

(* scripts/config.py *)

RELEVANCE_KEYWORDS ==
    << "trigger", "activation", "threshold", "condition", "forecast",
       "probability", "lead time", "early action", "eap", "s-eap", "seap",
       "activated", "mechanism", "stop", "deactivate", "return period",
       "model", "alert", "warning", "preliminary",
       "déclencheur", "déclenchement", "seuil", "condition", "prévision",
       "probabilité", "délai", "action anticipée", "activé", "mécanisme",
       "arrêt", "désactiver", "période de retour", "modèle", "alerte",
       "avertissement",
       "disparador", "activación", "umbral", "condición", "pronóstico",
       "probabilidad", "tiempo de anticipación", "acción temprana", "activado",
       "mecanismo", "parar", "desactivar", "período de retorno", "modelo",
       "alerta" >>

BATCH_SIZE == 5
KEYWORD_SCORE == 1
TABLE_BONUS_SCORE == 2
TOP_PAGES_DEFAULT == 3
NEIGHBORS_DEFAULT == TRUE

(* Python built-ins used by the code *)

Range(s) == { s[i] : i \in 1..Len(s) }

Min(a, b) == IF a < b THEN a ELSE b

UpperLetters == "ABCDEFGHIJKLMNOPQRSTUVWXYZÀÂÇÉÈÊÍÑÓÚ"
LowerLetters == "abcdefghijklmnopqrstuvwxyzàâçéèêíñóú"

UpperChars == { SubSeq(UpperLetters, i, i) : i \in 1..Len(UpperLetters) }

LowerOf ==
    [ c \in UpperChars |->
        LET i == CHOOSE j \in 1..Len(UpperLetters) : SubSeq(UpperLetters, j, j) = c
        IN  SubSeq(LowerLetters, i, i) ]

\* str.lower() of one character
LowerChar(c) == IF c \in UpperChars THEN LowerOf[c] ELSE c

RECURSIVE Lower(_)
\* str.lower(): character by character
Lower(s) ==
    IF Len(s) = 0 THEN ""
    ELSE IF Len(s) = 1 THEN LowerChar(s)
    ELSE Lower(SubSeq(s, 1, Len(s) \div 2)) \o Lower(SubSeq(s, Len(s) \div 2 + 1, Len(s)))

\* the positions of s at which sub occurs
Occurrences(s, sub) ==
    { i \in 1..(Len(s) - Len(sub) + 1) : SubSeq(s, i, i + Len(sub) - 1) = sub }

RECURSIVE CountFrom(_, _, _)
\* occurrences counted from position i on, each starting behind the one before
CountFrom(occ, i, n) ==
    IF \E j \in occ : j >= i
    THEN LET first == CHOOSE j \in occ : j >= i /\ \A l \in occ : l >= i => j <= l
         IN  1 + CountFrom(occ, first + n, n)
    ELSE 0

\* every occurrence counted, overlapping ones too
StrCount_Overlapping(s, sub) == Cardinality(Occurrences(s, sub))

\* str.count(sub): the number of non-overlapping occurrences, left to right
StrCount(s, sub) == CountFrom(Occurrences(s, sub), 1, Len(sub))

Whitespace == { " ", "\t", "\n", "\r", "\f" }

RECURSIVE LStrip(_)
LStrip(s) ==
    IF Len(s) > 0 /\ SubSeq(s, 1, 1) \in Whitespace
    THEN LStrip(SubSeq(s, 2, Len(s)))
    ELSE s

RECURSIVE RStrip(_)
RStrip(s) ==
    IF Len(s) > 0 /\ SubSeq(s, Len(s), Len(s)) \in Whitespace
    THEN RStrip(SubSeq(s, 1, Len(s) - 1))
    ELSE s

\* str.strip()
Strip(s) == RStrip(LStrip(s))

Digits == "0123456789"

RECURSIVE IntToStr(_)
\* str(n) of a non-negative int, as the f-string formats page_num
IntToStr(n) ==
    IF n < 10 THEN SubSeq(Digits, n + 1, n + 1)
    ELSE IntToStr(n \div 10) \o SubSeq(Digits, (n % 10) + 1, (n % 10) + 1)


(* scripts/pdf_processor.py *)

\* The PageData dataclass; relevance_score and has_tables have defaults
PageData(page_num, text, tables, has_tables) ==
    [ page_num        |-> page_num,
      text            |-> text,
      tables          |-> tables,
      relevance_score |-> 0,
      has_tables      |-> has_tables ]

\* has_tables not passed to PageData, so left at its default
ExtractPageContent_DefaultFlag(page, page_num) ==
    LET tables == SelectSeq(page.tables, LAMBDA markdown_table : markdown_table # "")
    IN  PageData(page_num, page.text, tables, FALSE)

\* extract_page_content: page.get_text(), and the markdown of every table of
\* page.find_tables() that table_to_markdown rendered to a non-empty string
ExtractPageContent(page, page_num) ==
    LET tables == SelectSeq(page.tables, LAMBDA markdown_table : markdown_table # "")
    IN  PageData(page_num, page.text, tables, Len(tables) > 0)

\* the index of range(doc.page_count) passed on as page_num
ProcessPdf_ZeroIndexed(doc) ==
    LET n == IF doc.error_at = 0 THEN Len(doc.pages) ELSE doc.error_at - 1
    IN  [ i \in 1..n |-> ExtractPageContent(doc.pages[i], i - 1) ]

\* process_pdf: the pages extracted before an exception ended the loop
\* (error_at = 0: no exception; error_at = k: raised while reading page k,
\* or while opening the file when k = 1)
ProcessPdf(doc) ==
    LET n == IF doc.error_at = 0 THEN Len(doc.pages) ELSE doc.error_at - 1
    IN  [ i \in 1..n |-> ExtractPageContent(doc.pages[i], i) ]

(* scripts/page_selector.py: calculate_relevance_score, score_all_pages *)

RECURSIVE JoinTables(_)
\* the loop  full_text += " " + table.lower()
JoinTables(tables) ==
    IF tables = <<>> THEN ""
    ELSE " " \o Lower(Head(tables)) \o JoinTables(Tail(tables))

FullText(page_data) == Lower(page_data.text) \o JoinTables(page_data.tables)

\* keyword.lower() of every entry of the list
KeywordsLower == [ k \in 1..Len(RELEVANCE_KEYWORDS) |-> Lower(RELEVANCE_KEYWORDS[k]) ]

RECURSIVE KeywordPoints(_, _)
\* the loop over RELEVANCE_KEYWORDS, from entry k on
KeywordPoints(full_text, k) ==
    IF k > Len(RELEVANCE_KEYWORDS) THEN 0
    ELSE StrCount(full_text, KeywordsLower[k]) * KEYWORD_SCORE
         + KeywordPoints(full_text, k + 1)

\* the table bonus added once for every table
RelevanceScore_PerTable(page_data) ==
    KeywordPoints(FullText(page_data), 1)
    + (IF page_data.has_tables THEN TABLE_BONUS_SCORE * Len(page_data.tables) ELSE 0)

\* the value calculate_relevance_score returns
RelevanceScore(page_data) ==
    KeywordPoints(FullText(page_data), 1)
    + (IF page_data.has_tables THEN TABLE_BONUS_SCORE ELSE 0)

\* the new points added to the score the page already holds
CalculateRelevanceScore_Accumulate(page_data) ==
    [ page_data EXCEPT !.relevance_score = @ + RelevanceScore(page_data) ]

\* the score returned but not written to the page
CalculateRelevanceScore_NotStored(page_data) == page_data

\* the page after calculate_relevance_score(page_data)
CalculateRelevanceScore(page_data) ==
    [ page_data EXCEPT !.relevance_score = RelevanceScore(page_data) ]

\* only the pages with a positive score handed back
ScoreAllPages_OnlyPositive(pages) ==
    SelectSeq([ i \in 1..Len(pages) |-> CalculateRelevanceScore(pages[i]) ],
              LAMBDA p : p.relevance_score > 0)

\* the list after score_all_pages(pages)
ScoreAllPages(pages) ==
    [ i \in 1..Len(pages) |-> CalculateRelevanceScore(pages[i]) ]

(* scripts/page_selector.py: select_relevant_pages *)

\* the filter with >= in place of >
FilterScored_Ge0(pages) == SelectSeq(pages, LAMBDA p : p.relevance_score >= 0)

\* the filter left out
FilterScored_None(pages) == pages

\* scored_pages = [p for p in pages_data if p.relevance_score > 0]
FilterScored(pages) == SelectSeq(pages, LAMBDA p : p.relevance_score > 0)

RECURSIVE InsertByScore_Unstable(_, _)
\* p placed before the pages of equal score: ties come out in reverse order
InsertByScore_Unstable(sorted, p) ==
    IF sorted = <<>> THEN <<p>>
    ELSE IF Head(sorted).relevance_score > p.relevance_score
         THEN <<Head(sorted)>> \o InsertByScore_Unstable(Tail(sorted), p)
         ELSE <<p>> \o sorted

RECURSIVE InsertByScore(_, _)
\* p placed behind every page whose score is not lower (a stable insertion)
InsertByScore(sorted, p) ==
    IF sorted = <<>> THEN <<p>>
    ELSE IF Head(sorted).relevance_score >= p.relevance_score
         THEN <<Head(sorted)>> \o InsertByScore(Tail(sorted), p)
         ELSE <<p>> \o sorted

RECURSIVE SortByScoreDesc(_)
\* list.sort(key=relevance_score, reverse=True): stable, descending
SortByScoreDesc(pages) ==
    IF pages = <<>> THEN <<>>
    ELSE InsertByScore(SortByScoreDesc(SubSeq(pages, 1, Len(pages) - 1)),
                       pages[Len(pages)])

\* the slice left out: every scored page is a top page
TopPages_All(scored_pages, k) == scored_pages

\* top_pages = scored_pages[:TOP_PAGES_TO_SELECT]
TopPages(scored_pages, k) == SubSeq(scored_pages, 1, Min(k, Len(scored_pages)))

\* the neighbours added without the two boundary tests
PageNumsOf_Unclamped(page, total_pages, neighbors) ==
    {page.page_num}
    \cup (IF neighbors THEN {page.page_num - 1, page.page_num + 1} ELSE {})

\* the page two before the top page taken too
PageNumsOf_TwoBefore(page, total_pages, neighbors) ==
    {page.page_num}
    \cup (IF neighbors /\ page.page_num > 1 THEN {page.page_num - 1} ELSE {})
    \cup (IF neighbors /\ page.page_num > 2 THEN {page.page_num - 2} ELSE {})
    \cup (IF neighbors /\ page.page_num < total_pages THEN {page.page_num + 1} ELSE {})

\* the previous page forgotten
PageNumsOf_NoPrev(page, total_pages, neighbors) ==
    {page.page_num}
    \cup (IF neighbors /\ page.page_num < total_pages THEN {page.page_num + 1} ELSE {})

\* the page numbers one top page adds to selected_page_nums
PageNumsOf(page, total_pages, neighbors) ==
    {page.page_num}
    \cup (IF neighbors /\ page.page_num > 1 THEN {page.page_num - 1} ELSE {})
    \cup (IF neighbors /\ page.page_num < total_pages THEN {page.page_num + 1} ELSE {})

\* selected_page_nums after the loop over top_pages
SelectedPageNums(top, total_pages, neighbors) ==
    UNION { PageNumsOf(top[i], total_pages, neighbors) : i \in 1..Len(top) }

RECURSIVE InsertByPageNum(_, _)
InsertByPageNum(sorted, p) ==
    IF sorted = <<>> THEN <<p>>
    ELSE IF Head(sorted).page_num <= p.page_num
         THEN <<Head(sorted)>> \o InsertByPageNum(Tail(sorted), p)
         ELSE <<p>> \o sorted

\* the final sort left out
SortByPageNum_Unsorted(pages) == pages

RECURSIVE SortByPageNum(_)
\* list.sort(key=page_num): stable, ascending
SortByPageNum(pages) ==
    IF pages = <<>> THEN <<>>
    ELSE InsertByPageNum(SortByPageNum(SubSeq(pages, 1, Len(pages) - 1)),
                         pages[Len(pages)])

\* a neighbour taken only if its own score is positive
PagesWithNums_PositiveOnly(pages, nums) ==
    SelectSeq(pages, LAMBDA p : p.page_num \in nums /\ p.relevance_score > 0)

\* pages built anew from the selected numbers instead of taken from the input
PagesWithNums_Fabricated(pages, nums) ==
    [ i \in 1..Cardinality(nums) |->
        PageData(CHOOSE n \in nums : Cardinality({ m \in nums : m <= n }) = i,
                 "", <<>>, FALSE) ]

\* selected_pages = [p for p in pages_data if p.page_num in selected_page_nums]
PagesWithNums(pages, nums) == SelectSeq(pages, LAMBDA p : p.page_num \in nums)

\* the descending sort done on the input list itself
SelectRelevantPages_SortsInput(pages, k, neighbors) ==
    LET sorted == SortByScoreDesc(pages)
        top    == TopPages(FilterScored(sorted), k)
        nums   == SelectedPageNums(top, Len(pages), neighbors)
    IN  [ pages_data         |-> sorted,
          top_pages          |-> top,
          selected_page_nums |-> nums,
          selected_pages     |-> SortByPageNum(PagesWithNums(sorted, nums)) ]

\* select_relevant_pages: the input list as the call leaves it (the sort at
\* line 91 works on the filtered copy), its locals and the list it returns
SelectRelevantPages(pages, k, neighbors) ==
    LET scored_pages == FilterScored(pages)
        top          == TopPages(SortByScoreDesc(scored_pages), k)
        nums         == SelectedPageNums(top, Len(pages), neighbors)
    IN  IF scored_pages = <<>>
        THEN [ pages_data |-> pages, top_pages |-> <<>>,
               selected_page_nums |-> {}, selected_pages |-> <<>> ]
        ELSE [ pages_data         |-> pages,
               top_pages          |-> top,
               selected_page_nums |-> nums,
               selected_pages     |-> SortByPageNum(PagesWithNums(pages, nums)) ]

(* scripts/payload_builder.py *)

RECURSIVE TablesPart(_)
\* each table followed by a newline
TablesPart(tables) ==
    IF tables = <<>> THEN ""
    ELSE Head(tables) \o "\n" \o TablesPart(Tail(tables))

\* no header and no tables section, the text section only
PagePart_TextOnly(page) ==
    IF Strip(page.text) # "" THEN "\n[TEXT]\n" \o Strip(page.text) \o "\n" ELSE ""

\* the text section written before the tables section
PagePart_TextFirst(page) ==
    "\n--- PAGE " \o IntToStr(page.page_num) \o " ---\n"
    \o (IF Strip(page.text) # "" THEN "\n[TEXT]\n" \o Strip(page.text) \o "\n" ELSE "")
    \o (IF page.tables # <<>> THEN "\n[TABLES]\n" \o TablesPart(page.tables) ELSE "")

\* the parts construct_payload appends for one page
PagePart(page) ==
    "\n--- PAGE " \o IntToStr(page.page_num) \o " ---\n"
    \o (IF page.tables # <<>> THEN "\n[TABLES]\n" \o TablesPart(page.tables) ELSE "")
    \o (IF Strip(page.text) # "" THEN "\n[TEXT]\n" \o Strip(page.text) \o "\n" ELSE "")

RECURSIVE JoinParts_Reversed(_)
\* the parts of a later page put before those of an earlier one
JoinParts_Reversed(pages) ==
    IF pages = <<>> THEN ""
    ELSE JoinParts_Reversed(Tail(pages)) \o PagePart(Head(pages))

RECURSIVE JoinParts(_)
\* "".join(payload_parts), the parts appended page by page
JoinParts(pages) ==
    IF pages = <<>> THEN ""
    ELSE PagePart(Head(pages)) \o JoinParts(Tail(pages))

\* no early return, and a newline closing the payload
ConstructPayload_TrailingNewline(pages) == JoinParts(pages) \o "\n"

\* construct_payload: "" for an empty list, else the joined parts
ConstructPayload(pages) ==
    IF pages = <<>> THEN "" ELSE JoinParts(pages)

(* Inputs *)

Table1 == "| A | B |\n| --- | --- |\n| 1 | 2 |"
Table2 == "| Trigger | Lead time |\n| --- | --- |\n| Alert | 3 |"

\* what the PDF library returns for a page: its text and, for every table it
\* finds, the string table_to_markdown renders ("" when rendering fails)
RawPages ==
    { [ text |-> "",                        tables |-> <<>> ],
      [ text |-> "Forecast\n",              tables |-> <<>> ],
      [ text |-> "threshold Threshold",     tables |-> <<Table1>> ],
      [ text |-> " \n",                     tables |-> <<"", Table1>> ],
      [ text |-> " Flood threshold 40%\n",  tables |-> <<>> ] }

\* further pages a caller of the scorer builds
CallerPages ==
    RawPages \cup
    { [ text |-> "s-EAP Alerte",            tables |-> <<>> ],
      [ text |-> "Modèle",                  tables |-> <<Table1, Table2>> ],
      [ text |-> "",                        tables |-> <<"">> ],
      [ text |-> "AlertAlerta",             tables |-> <<>> ],
      [ text |-> " \n",                     tables |-> <<Table1, Table1, Table1, Table1, Table1>> ] }

DocPages == UNION { [1..n -> RawPages] : n \in 0..MaxDocPages }

\* the PDF files: their pages and where (if at all) reading them raises
Pdfs ==
    UNION { { [ pages |-> pages, error_at |-> e ] :
                e \in 0..(IF pages = <<>> THEN 1 ELSE Len(pages)) }
            : pages \in DocPages }

NoPdf == [ pages |-> <<>>, error_at |-> 0 ]

\* a page as a caller passes it to the selector: only page_num and
\* relevance_score are read there
ScoredPage(page_num, score) ==
    [ PageData(page_num, "", <<>>, FALSE) EXCEPT !.relevance_score = score ]

\* the scored pages 1..n of a document, in page order
ScoredDocuments ==
    UNION { { [ i \in 1..n |-> ScoredPage(i, scores[i]) ] : scores \in [1..n -> 0..MaxScore] }
            : n \in 0..MaxPages }

\* the scores of the five-page scenario of the specification's section 8
ScenarioScores == {0, 1, 4}

\* the five-page documents with those scores
ScenarioDocuments ==
    { [ i \in 1..5 |-> ScoredPage(i, scores[i]) ] : scores \in [1..5 -> ScenarioScores] }

\* the keywords a caller adds to a text, by their place in RELEVANCE_KEYWORDS:
\* "trigger", "condition" (listed twice), "eap" (part of "s-eap" and
\* "seap"), "activé" and "alerta" (holds "alert")
AddedKeywords == {1, 4, 9, 29, 51}

\* scored pages with unique page numbers in any order, gaps allowed
ScoredLists ==
    UNION { { [ i \in 1..n |-> ScoredPage(nums[i], scores[i]) ] :
                nums \in { f \in [1..n -> 1..MaxPages] :
                             \A i, j \in 1..n : i # j => f[i] # f[j] },
                scores \in [1..n -> 0..MaxScore] }
            : n \in 1..MaxCallerLen }

NoEdit == [ page |-> 0, keyword |-> 0, old_score |-> 0 ]

NoReturn == [ page |-> 0, value |-> 0 ]

NoResult ==
    [ status |-> "", error |-> "", pages_analyzed |-> 0, pages_selected |-> 0,
      triggers |-> <<>>, warning |-> "" ]

\* result dict as prepare_pdf_payload creates it
NewResult ==
    [ status |-> "success", error |-> "", pages_analyzed |-> 0, pages_selected |-> 0,
      triggers |-> <<>>, warning |-> "" ]

\* what extract_triggers_with_llm does with a payload: it raises (no API
\* key), or returns a dict with the triggers the model found and, after an
\* exception in the call or the parsing, an "error" entry ("": no entry)
LlmResults ==
    { [ raises |-> TRUE,  triggers |-> <<>>, error |-> "" ],
      [ raises |-> FALSE, triggers |-> <<>>, error |-> "" ],
      [ raises |-> FALSE, triggers |-> << "statement" >>, error |-> "" ],
      [ raises |-> FALSE, triggers |-> << "statement", "" >>, error |-> "" ],
      [ raises |-> FALSE, triggers |-> <<>>, error |-> "JSON parsing failed" ] }

None == <<>>

(* Initial states *)

InitConfig ==
    /\ TOP_PAGES_TO_SELECT \in 1..TOP_PAGES_DEFAULT
    /\ INCLUDE_NEIGHBOR_PAGES \in BOOLEAN

\* run_batch_process is not running
NoBatch ==
    /\ all_pdfs = <<>>
    /\ output = <<>>
    /\ files_to_process = <<>>
    /\ batch_files = <<>>
    /\ result_metas = <<>>
    /\ results_map = <<>>
    /\ submitted = <<>>

InitLocals ==
    /\ top_pages = <<>>
    /\ selected_page_nums = {}
    /\ selected_pages = <<>>
    /\ payload = None
    /\ calls = <<>>
    /\ raised = FALSE
    /\ edit = NoEdit
    /\ returned = NoReturn
    /\ NoBatch

\* prepare_pdf_payload is about to run on a PDF file
Init ==
    /\ InitConfig
    /\ InitLocals
    /\ pdf \in Pdfs
    /\ pages_data = <<>>
    /\ scored = {}
    /\ result = NewResult
    /\ pc = "step1"

\* a caller holds a list of scored pages
InitSelect ==
    /\ InitConfig
    /\ InitLocals
    /\ pdf = NoPdf
    /\ pages_data \in ScoredDocuments \cup ScenarioDocuments \cup ScoredLists
    /\ scored = 1..Len(pages_data)
    /\ result = NoResult
    /\ pc = "caller"

\* a caller holds one freshly extracted page
InitScore ==
    /\ TOP_PAGES_TO_SELECT = TOP_PAGES_DEFAULT
    /\ INCLUDE_NEIGHBOR_PAGES = NEIGHBORS_DEFAULT
    /\ InitLocals
    /\ pdf = NoPdf
    /\ pages_data \in { <<ExtractPageContent(page, 1)>> : page \in CallerPages }
    /\ scored = {}
    /\ result = NoResult
    /\ pc = "caller"

(* Calls of the package's functions by a caller *)

\* calculate_relevance_score(pages_data[i])
CallCalculateRelevanceScore(i) ==
    /\ pc = "caller"
    /\ Len(calls) < MaxCalls
    /\ pages_data' = [ pages_data EXCEPT ![i] = CalculateRelevanceScore(@) ]
    /\ scored' = scored \cup {i}
    /\ returned' = [ page |-> i, value |-> RelevanceScore(pages_data[i]) ]
    /\ calls' = Append(calls, "calculate_relevance_score")
    /\ raised' = FALSE
    /\ UNCHANGED batch_vars
    /\ UNCHANGED <<TOP_PAGES_TO_SELECT, INCLUDE_NEIGHBOR_PAGES, pdf, top_pages,
                   selected_page_nums, selected_pages, payload, result, pc, edit>>

\* select_relevant_pages(pages_data); it has no raise statement
CallSelectRelevantPages ==
    /\ pc = "caller"
    /\ Len(calls) < MaxCalls
    /\ LET r == SelectRelevantPages(pages_data, TOP_PAGES_TO_SELECT, INCLUDE_NEIGHBOR_PAGES)
       IN  /\ pages_data' = r.pages_data
           /\ top_pages' = r.top_pages
           /\ selected_page_nums' = r.selected_page_nums
           /\ selected_pages' = r.selected_pages
    /\ calls' = Append(calls, "select_relevant_pages")
    /\ raised' = FALSE
    /\ UNCHANGED batch_vars
    /\ UNCHANGED <<TOP_PAGES_TO_SELECT, INCLUDE_NEIGHBOR_PAGES, pdf, returned,
                   scored, payload, result, pc, edit>>

\* construct_payload(selected_pages) on the list the caller holds
CallConstructPayload ==
    /\ pc = "caller"
    /\ Len(calls) < MaxCalls
    /\ payload' = <<ConstructPayload(selected_pages)>>
    /\ calls' = Append(calls, "construct_payload")
    /\ raised' = FALSE
    /\ UNCHANGED batch_vars
    /\ UNCHANGED <<TOP_PAGES_TO_SELECT, INCLUDE_NEIGHBOR_PAGES, pdf, returned, pages_data,
                   scored, top_pages, selected_page_nums, selected_pages, result,
                   pc, edit>>

\* the caller calls the selector once on its scored list
SelectOnce == calls = <<>> /\ CallSelectRelevantPages

\* the caller adds one occurrence of keyword k, as a word of its own, to the
\* text of page i, which the scorer has scored
AddKeywordOccurrence(i, k) ==
    /\ pc = "caller"
    /\ edit = NoEdit
    /\ i \in scored
    /\ pages_data' = [ pages_data EXCEPT ![i].text = @ \o " " \o RELEVANCE_KEYWORDS[k] ]
    /\ scored' = scored \ {i}
    /\ edit' = [ page |-> i, keyword |-> k, old_score |-> pages_data[i].relevance_score ]
    /\ UNCHANGED batch_vars
    /\ UNCHANGED <<TOP_PAGES_TO_SELECT, INCLUDE_NEIGHBOR_PAGES, pdf, returned, top_pages,
                   selected_page_nums, selected_pages, payload, result, pc,
                   calls, raised>>

(* scripts/main.py: prepare_pdf_payload, step by step *)

\* Step 1: process_pdf; an empty list ends the run with status "error"
Step1Extract ==
    /\ pc = "step1"
    /\ pages_data' = ProcessPdf(pdf)
    /\ calls' = Append(calls, "process_pdf")
    /\ IF pages_data' = <<>>
       THEN /\ result' = [ result EXCEPT !.status = "error",
                                         !.error = "Failed to extract pages from PDF" ]
            /\ pc' = "returned"
       ELSE /\ result' = [ result EXCEPT !.pages_analyzed = Len(pages_data') ]
            /\ pc' = "step2"
    /\ UNCHANGED batch_vars
    /\ UNCHANGED <<TOP_PAGES_TO_SELECT, INCLUDE_NEIGHBOR_PAGES, pdf, returned, scored, top_pages,
                   selected_page_nums, selected_pages, payload, raised, edit>>

\* Step 2: score_all_pages
Step2Score ==
    /\ pc = "step2"
    /\ pages_data' = ScoreAllPages(pages_data)
    /\ scored' = 1..Len(pages_data)
    /\ calls' = Append(calls, "score_all_pages")
    /\ pc' = "step3"
    /\ UNCHANGED batch_vars
    /\ UNCHANGED <<TOP_PAGES_TO_SELECT, INCLUDE_NEIGHBOR_PAGES, pdf, returned, top_pages,
                   selected_page_nums, selected_pages, payload, result, raised, edit>>

\* Step 3 without the test of the empty selection
Step3Select_NoBranch ==
    /\ pc = "step3"
    /\ LET r == SelectRelevantPages(pages_data, TOP_PAGES_TO_SELECT, INCLUDE_NEIGHBOR_PAGES)
       IN  /\ pages_data' = r.pages_data
           /\ top_pages' = r.top_pages
           /\ selected_page_nums' = r.selected_page_nums
           /\ selected_pages' = r.selected_pages
    /\ calls' = Append(calls, "select_relevant_pages")
    /\ result' = [ result EXCEPT !.pages_selected = Len(selected_pages') ]
    /\ pc' = "step4"
    /\ UNCHANGED batch_vars
    /\ UNCHANGED <<TOP_PAGES_TO_SELECT, INCLUDE_NEIGHBOR_PAGES, pdf, returned, scored,
                   payload, raised, edit>>

\* Step 3 run straight after the extraction, before the scoring
Step3Select_BeforeScoring ==
    /\ pc = "step2"
    /\ LET r == SelectRelevantPages(pages_data, TOP_PAGES_TO_SELECT, INCLUDE_NEIGHBOR_PAGES)
       IN  /\ pages_data' = r.pages_data
           /\ top_pages' = r.top_pages
           /\ selected_page_nums' = r.selected_page_nums
           /\ selected_pages' = r.selected_pages
    /\ calls' = Append(calls, "select_relevant_pages")
    /\ IF selected_pages' = <<>>
       THEN /\ result' = [ result EXCEPT !.status = "no_matches",
                                         !.error = "No pages matched the relevance criteria" ]
            /\ pc' = "returned"
       ELSE /\ result' = [ result EXCEPT !.pages_selected = Len(selected_pages') ]
            /\ pc' = "step4"
    /\ UNCHANGED batch_vars
    /\ UNCHANGED <<TOP_PAGES_TO_SELECT, INCLUDE_NEIGHBOR_PAGES, pdf, returned, scored,
                   payload, raised, edit>>

\* Step 3: select_relevant_pages; an empty selection ends the run with
\* status "no_matches"
Step3Select ==
    /\ pc = "step3"
    /\ LET r == SelectRelevantPages(pages_data, TOP_PAGES_TO_SELECT, INCLUDE_NEIGHBOR_PAGES)
       IN  /\ pages_data' = r.pages_data
           /\ top_pages' = r.top_pages
           /\ selected_page_nums' = r.selected_page_nums
           /\ selected_pages' = r.selected_pages
    /\ calls' = Append(calls, "select_relevant_pages")
    /\ IF selected_pages' = <<>>
       THEN /\ result' = [ result EXCEPT !.status = "no_matches",
                                         !.error = "No pages matched the relevance criteria" ]
            /\ pc' = "returned"
       ELSE /\ result' = [ result EXCEPT !.pages_selected = Len(selected_pages') ]
            /\ pc' = "step4"
    /\ UNCHANGED batch_vars
    /\ UNCHANGED <<TOP_PAGES_TO_SELECT, INCLUDE_NEIGHBOR_PAGES, pdf, returned, scored,
                   payload, raised, edit>>

\* Step 4: construct_payload; an empty payload ends the run with status "error"
Step4Payload ==
    /\ pc = "step4"
    /\ calls' = Append(calls, "construct_payload")
    /\ LET text == ConstructPayload(selected_pages)
       IN  IF text = ""
           THEN /\ result' = [ result EXCEPT !.status = "error",
                                             !.error = "Failed to construct payload" ]
                /\ payload' = None
           ELSE /\ payload' = <<text>>
                /\ UNCHANGED result
    /\ pc' = "returned"
    /\ UNCHANGED batch_vars
    /\ UNCHANGED <<TOP_PAGES_TO_SELECT, INCLUDE_NEIGHBOR_PAGES, pdf, returned, pages_data, scored,
                   top_pages, selected_page_nums, selected_pages, raised, edit>>

(* scripts/main.py: process_single_pdf, after prepare_pdf_payload returned *)

\* "if not payload: return result"
ReturnWithoutPayload ==
    /\ pc = "returned"
    /\ payload = None
    /\ pc' = "done"
    /\ UNCHANGED batch_vars
    /\ UNCHANGED <<TOP_PAGES_TO_SELECT, INCLUDE_NEIGHBOR_PAGES, pdf, pages_data, scored,
                   top_pages, selected_page_nums, selected_pages, payload, result,
                   calls, raised, edit, returned>>

\* the LLM called whatever prepare_pdf_payload returned
Step5Extract_NoCheck ==
    /\ pc = "returned"
    /\ calls' = Append(calls, "extract_triggers_with_llm")
    /\ \E llm_result \in LlmResults :
          IF llm_result.raises
          THEN /\ raised' = TRUE
               /\ UNCHANGED result
          ELSE /\ raised' = FALSE
               /\ result' = [ result EXCEPT
                                !.triggers = llm_result.triggers,
                                !.status   = IF llm_result.error # "" THEN "partial" ELSE @,
                                !.warning  = llm_result.error ]
    /\ pc' = "done"
    /\ UNCHANGED batch_vars
    /\ UNCHANGED <<TOP_PAGES_TO_SELECT, INCLUDE_NEIGHBOR_PAGES, pdf, pages_data, scored,
                   top_pages, selected_page_nums, selected_pages, payload, edit, returned>>

\* Step 5: extract_triggers_with_llm(payload); the triggers are stored under
\* trigger_statement_1, 2, ... in the order of the list; an "error" entry of
\* the LLM result makes the status "partial"
Step5Extract ==
    /\ pc = "returned"
    /\ payload # None
    /\ calls' = Append(calls, "extract_triggers_with_llm")
    /\ \E llm_result \in LlmResults :
          IF llm_result.raises
          THEN /\ raised' = TRUE
               /\ UNCHANGED result
          ELSE /\ raised' = FALSE
               /\ result' = [ result EXCEPT
                                !.triggers = llm_result.triggers,
                                !.status   = IF llm_result.error # "" THEN "partial" ELSE @,
                                !.warning  = llm_result.error ]
    /\ pc' = "done"
    /\ UNCHANGED batch_vars
    /\ UNCHANGED <<TOP_PAGES_TO_SELECT, INCLUDE_NEIGHBOR_PAGES, pdf, pages_data, scored,
                   top_pages, selected_page_nums, selected_pages, payload, edit, returned>>

(* Specifications *)

\* one run of prepare_pdf_payload on a PDF file
Next ==
    \/ Step1Extract
    \/ Step2Score
    \/ Step3Select
    \/ Step4Payload

Spec == Init /\ [][Next]_vars

\* one run of process_single_pdf on a PDF file
NextSingle ==
    \/ Next
    \/ ReturnWithoutPayload
    \/ Step5Extract

SpecSingle == Init /\ [][NextSingle]_vars

\* the selector called on a list of scored pages
NextSelect == SelectOnce

SpecSelect == InitSelect /\ [][NextSelect]_vars

\* scorer and selector called on one page, which the caller may edit
NextScore ==
    \/ \E i \in 1..Len(pages_data) : CallCalculateRelevanceScore(i)
    \/ CallSelectRelevantPages
    \/ CallConstructPayload
    \/ \E i \in 1..Len(pages_data), k \in AddedKeywords : AddKeywordOccurrence(i, k)

SpecScore == InitScore /\ [][NextScore]_vars

(* scripts/batch_runner.py *)

\* prepare_pdf_payload as create_jsonl_payload calls it: the payload (None
\* after an early return) and the status of the result
PreparePdfPayload(doc, k, neighbors) ==
    LET extracted == ProcessPdf(doc)
        pages     == SelectRelevantPages(ScoreAllPages(extracted), k, neighbors).selected_pages
        text      == ConstructPayload(pages)
    IN  IF extracted = <<>> THEN [ payload |-> None, status |-> "error" ]
        ELSE IF pages = <<>> THEN [ payload |-> None, status |-> "no_matches" ]
        ELSE IF text = "" THEN [ payload |-> None, status |-> "error" ]
        ELSE [ payload |-> <<text>>, status |-> "success" ]

\* a document with a relevant page
RelevantDoc == [ pages |-> << [ text |-> "Forecast\n", tables |-> <<>> ] >>, error_at |-> 0 ]

\* the documents that give no payload: one without a relevant page, and one
\* that cannot be opened
OtherDocs ==
    { [ pages |-> << [ text |-> "", tables |-> <<>> ] >>, error_at |-> 0 ],
      [ pages |-> <<>>,                                  error_at |-> 1 ] }

\* the folders: files named 1..n, each the relevant document or, the same
\* one in all these places, a document that gives no payload
Folders ==
    UNION { { [ i \in 1..n |-> [ name |-> i, doc |-> docs[i] ] ] :
                docs \in [1..n -> {RelevantDoc, other}] }
            : n \in 0..MaxFiles, other \in OtherDocs }

\* the file names of a list of files
Names(files) == { files[i].name : i \in 1..Len(files) }

\* what the Batch API answers to one request: nothing, an error, or triggers
Responses == { "none", "error", "triggers" }

\* the answers to the n requests of a batch: triggers for all but the last
\* request, anything for the last
BatchAnswers(n) ==
    { answers \in [1..n -> Responses] : \A i \in 1..(n - 1) : answers[i] = "triggers" }

\* get_processed_files: the 'file' entries of extracted_triggers.json
GetProcessedFiles(data) == { data[i].file : i \in 1..Len(data) }

\* [f for f in all_pdfs if f.name not in processed_files]
NotProcessed(pdfs, processed_files) ==
    SelectSeq(pdfs, LAMBDA f : f.name \notin processed_files)

\* create_jsonl_payload: the result dicts of the files that gave a payload
CreateJsonlPayload(pdf_files, k, neighbors) ==
    LET with_payload == SelectSeq(pdf_files,
                                  LAMBDA f : PreparePdfPayload(f.doc, k, neighbors).payload # None)
    IN  [ i \in 1..Len(with_payload) |->
            [ file |-> with_payload[i].name, status |-> "success", error |-> "" ] ]

\* a request that got an error is left out of the file
UpdateMainJson_SkipsErrors(data, answers, metas) ==
    data \o SelectSeq([ i \in 1..Len(metas) |->
                          [ metas[i] EXCEPT !.status = IF answers[i] = "triggers" THEN @ ELSE "error",
                                            !.error  = "" ] ],
                      LAMBDA meta : meta.status # "error")

\* update_main_json: the list saved to extracted_triggers.json
UpdateMainJson(data, answers, metas) ==
    data \o [ i \in 1..Len(metas) |->
                [ metas[i] EXCEPT
                    !.status = IF answers[i] = "triggers" THEN @ ELSE "error",
                    !.error  = IF answers[i] = "none" THEN "No response from Batch API"
                               ELSE IF answers[i] = "error" THEN "error of the request"
                               ELSE @ ] ]

\* a run of run_batch_process is about to start; extracted_triggers.json
\* holds nothing, or the result of the first or of the second file
InitBatch ==
    /\ TOP_PAGES_TO_SELECT = TOP_PAGES_DEFAULT
    /\ INCLUDE_NEIGHBOR_PAGES = NEIGHBORS_DEFAULT
    /\ pdf = NoPdf
    /\ pages_data = <<>>
    /\ scored = {}
    /\ top_pages = <<>>
    /\ selected_page_nums = {}
    /\ selected_pages = <<>>
    /\ payload = None
    /\ result = NoResult
    /\ calls = <<>>
    /\ raised = FALSE
    /\ edit = NoEdit
    /\ returned = NoReturn
    /\ all_pdfs \in Folders
    /\ output \in { <<>> } \cup { << [ file |-> f, status |-> "success", error |-> "" ] >> :
                                    f \in Names(all_pdfs) \cap {1, 2} }
    /\ files_to_process = <<>>
    /\ batch_files = <<>>
    /\ result_metas = <<>>
    /\ results_map = <<>>
    /\ submitted = <<>>
    /\ pc = "start"

\* lines 307-316: the files not yet in the output; return if there is none
StartRun ==
    /\ pc = "start"
    /\ files_to_process' = NotProcessed(all_pdfs, GetProcessedFiles(output))
    /\ pc' = IF files_to_process' = <<>> THEN "exit" ELSE "batch"
    /\ UNCHANGED <<all_pdfs, output, batch_files, result_metas, results_map, submitted, raised>>
    /\ UNCHANGED pipeline_vars

\* lines 320-334: the next batch and its payloads
CreateBatch ==
    /\ pc = "batch"
    /\ batch_files' = SubSeq(files_to_process, 1, Min(BATCH_SIZE, Len(files_to_process)))
    /\ result_metas' = CreateJsonlPayload(batch_files', TOP_PAGES_TO_SELECT, INCLUDE_NEIGHBOR_PAGES)
    /\ pc' = IF result_metas' = <<>> THEN "refresh" ELSE "submit"
    /\ UNCHANGED <<all_pdfs, output, files_to_process, results_map, submitted, raised>>
    /\ UNCHANGED pipeline_vars

\* line 338: submit_batch_job uploads the file and creates the job, or raises
SubmitBatchJob ==
    /\ pc = "submit"
    /\ \E ok \in BOOLEAN :
          IF ok
          THEN /\ submitted' = submitted \o [ i \in 1..Len(result_metas) |-> result_metas[i].file ]
               /\ pc' = "wait"
               /\ UNCHANGED raised
          ELSE /\ raised' = TRUE
               /\ pc' = "exit"
               /\ UNCHANGED submitted
    /\ UNCHANGED <<all_pdfs, output, files_to_process, batch_files, result_metas, results_map>>
    /\ UNCHANGED pipeline_vars

\* line 341: wait_for_job returns the job when it succeeded and raises when
\* it failed or was cancelled
WaitForJob ==
    /\ pc = "wait"
    /\ \E state \in { "SUCCEEDED", "FAILED", "CANCELLED" } :
          IF state = "SUCCEEDED"
          THEN pc' = "retrieve" /\ UNCHANGED raised
          ELSE pc' = "exit" /\ raised' = TRUE
    /\ UNCHANGED batch_vars
    /\ UNCHANGED pipeline_vars

\* line 344: retrieve_and_save_results downloads the answers and saves them
\* with update_main_json, or raises
RetrieveAndSaveResults ==
    /\ pc = "retrieve"
    /\ \/ /\ raised' = TRUE
          /\ pc' = "exit"
          /\ UNCHANGED <<output, results_map>>
       \/ /\ \E answers \in BatchAnswers(Len(result_metas)) :
                /\ results_map' = answers
                /\ output' = UpdateMainJson(output, answers, result_metas)
          /\ pc' = "refresh"
          /\ UNCHANGED raised
    /\ UNCHANGED <<all_pdfs, files_to_process, batch_files, result_metas, submitted>>
    /\ UNCHANGED pipeline_vars

\* the list refreshed without the test for progress
RefreshFiles_NoBreak ==
    /\ pc = "refresh"
    /\ files_to_process' = NotProcessed(all_pdfs, GetProcessedFiles(output))
    /\ pc' = IF files_to_process' = <<>> THEN "exit" ELSE "batch"
    /\ UNCHANGED <<all_pdfs, output, batch_files, result_metas, results_map, submitted, raised>>
    /\ UNCHANGED pipeline_vars

\* lines 357-368 and the loop test of line 319: the files still not in the
\* output; break if they are as many as before
RefreshFiles ==
    /\ pc = "refresh"
    /\ LET all_to_process_now == NotProcessed(all_pdfs, GetProcessedFiles(output))
       IN  IF Len(all_to_process_now) = Len(files_to_process)
           THEN /\ pc' = "exit"
                /\ UNCHANGED files_to_process
           ELSE /\ files_to_process' = all_to_process_now
                /\ pc' = IF all_to_process_now = <<>> THEN "exit" ELSE "batch"
    /\ UNCHANGED <<all_pdfs, output, batch_files, result_metas, results_map, submitted, raised>>
    /\ UNCHANGED pipeline_vars

\* one run of run_batch_process
NextBatch ==
    \/ StartRun
    \/ CreateBatch
    \/ SubmitBatchJob
    \/ WaitForJob
    \/ RetrieveAndSaveResults
    \/ RefreshFiles

SpecBatch == InitBatch /\ [][NextBatch]_vars

\* the run with every step taken that can be taken
SpecBatchLive == SpecBatch /\ WF_vars(NextBatch)

(* Properties *)

PageNums(pages) == [ i \in 1..Len(pages) |-> pages[i].page_num ]

\* select_relevant_pages has been called and has returned
Selected == calls # <<>> /\ calls[Len(calls)] = "select_relevant_pages"

\* the input of the selector is a document: pages 1..N in page order
IsDocument == \A i \in 1..Len(pages_data) : pages_data[i].page_num = i

\* the input pages with a positive score
Positive == { p \in Range(pages_data) : p.relevance_score > 0 }

\* the position of page p in the sequence s
PosIn(s, p) == CHOOSE i \in 1..Len(s) : s[i] = p

\* C1: the list select_relevant_pages returns is strictly ascending by
\* page_num, whatever the scores and the order of the input are
C1_StrictlyAscending ==
    Selected =>
        \A i, j \in 1..Len(selected_pages) :
            i < j => selected_pages[i].page_num < selected_pages[j].page_num

\* a top page is also the neighbour of another top page, which ranks before
\* it although it comes later in the document
C1_Witness ==
    /\ Selected
    /\ INCLUDE_NEIGHBOR_PAGES
    /\ Len(top_pages) >= 2
    /\ top_pages[1].page_num = top_pages[2].page_num + 1
    /\ PageNums(selected_pages) # PageNums(pages_data)
    /\ Len(selected_pages) >= 3

\* C2: every page select_relevant_pages returns is one of the input pages
C2_Subset ==
    Selected => \A i \in 1..Len(selected_pages) : selected_pages[i] \in Range(pages_data)

\* a neighbour's page number is not among the input pages, and pages are returned
C2_Witness ==
    /\ Selected
    /\ selected_pages # <<>>
    /\ \E n \in selected_page_nums : n \notin Range(PageNums(pages_data))

\* C3: for a document of pages 1..N every selected page number lies in 1..N,
\* the neighbours of page 1 and of page N included, and nothing is raised
C3_NeighborsClamped ==
    (Selected /\ IsDocument) =>
        /\ selected_page_nums \subseteq 1..Len(pages_data)
        /\ \A i \in 1..Len(selected_pages) :
              selected_pages[i].page_num \in 1..Len(pages_data)
        /\ ~raised

\* page 1 and page N are both top pages and neighbours are included
C3_Witness ==
    /\ Selected
    /\ IsDocument
    /\ INCLUDE_NEIGHBOR_PAGES
    /\ Len(pages_data) >= 3
    /\ 1 \in Range(PageNums(top_pages))
    /\ Len(pages_data) \in Range(PageNums(top_pages))

\* the scenario of C4: five pages, page 1 scores 1, page 3 scores 4, K = 1,
\* neighbours enabled
C4_Scenario ==
    /\ Selected
    /\ IsDocument
    /\ [ i \in 1..Len(pages_data) |-> pages_data[i].relevance_score ] = <<1, 0, 4, 0, 0>>
    /\ TOP_PAGES_TO_SELECT = 1
    /\ INCLUDE_NEIGHBOR_PAGES

\* C4: in that scenario select_relevant_pages returns pages 2, 3, 4 in this
\* order; page 1 is left out although its score is positive
C4_EndToEnd ==
    C4_Scenario => PageNums(selected_pages) = <<2, 3, 4>>

C4_Witness == C4_Scenario /\ pages_data[1] \notin Range(selected_pages)

\* C5: select_relevant_pages returns the empty list exactly when no input
\* page has a positive score, and it does not raise
C5_EmptyIffNoPositive ==
    Selected =>
        /\ (selected_pages = <<>>) <=> (Positive = {})
        /\ ~raised

\* an all-zero document of several pages gives the empty list
C5_Witness ==
    /\ Selected
    /\ Len(pages_data) >= 2
    /\ Positive = {}
    /\ selected_pages = <<>>

\* C6: in prepare_pdf_payload, when pages were extracted and the selection is
\* empty, the run ends with status "no_matches" and no payload, and
\* construct_payload is not called
C6_NoMatchesOutcome ==
    (Selected /\ pages_data # <<>> /\ selected_pages = <<>>) =>
        /\ pc = "returned"
        /\ result.status = "no_matches"
        /\ payload = None
        /\ "construct_payload" \notin Range(calls)
        /\ ~raised

\* a run on a PDF whose pages all score 0 has returned
C6_Witness ==
    /\ pc = "returned"
    /\ Len(pages_data) >= 2
    /\ scored = 1..Len(pages_data)
    /\ selected_pages = <<>>
    /\ result.status = "no_matches"

\* C7: the selector called on pages the scorer has not processed, whose
\* content would score more than 0, raises
C7_UnscoredFailsLoudly ==
    ( /\ Selected
      /\ scored = {}
      /\ \E i \in 1..Len(pages_data) :
            pages_data[i].relevance_score = 0 /\ RelevanceScore(pages_data[i]) > 0 )
    => raised

\* C8: when fewer than K pages have a positive score, all of them are top
\* pages and are returned, no page of score 0 is a top page, and a page of
\* score 0 is returned only as the neighbour of a top page
C8_NoPadding ==
    (Selected /\ Cardinality(Positive) < TOP_PAGES_TO_SELECT) =>
        /\ Range(top_pages) = Positive
        /\ Len(top_pages) = Cardinality(Positive)
        /\ Positive \subseteq Range(selected_pages)
        /\ \A p \in Range(selected_pages) :
              p.relevance_score = 0 =>
                  /\ INCLUDE_NEIGHBOR_PAGES
                  /\ \E t \in Range(top_pages) :
                        p.page_num = t.page_num - 1 \/ p.page_num = t.page_num + 1

\* fewer positive pages than K, and a page of score 0 is left out
C8_Witness ==
    /\ Selected
    /\ Positive # {}
    /\ Cardinality(Positive) < TOP_PAGES_TO_SELECT
    /\ Len(pages_data) > TOP_PAGES_TO_SELECT
    /\ \E p \in Range(pages_data) : p.relevance_score = 0 /\ p \notin Range(selected_pages)

\* C9: top_pages is descending by score; of two positive pages with the same
\* score the one earlier in the input ranks first, and is a top page whenever
\* the later one is
C9_StableTies ==
    Selected =>
        /\ \A i, j \in 1..Len(top_pages) :
              i < j => top_pages[i].relevance_score >= top_pages[j].relevance_score
        /\ \A i, j \in 1..Len(pages_data) :
              ( /\ i < j
                /\ pages_data[i].relevance_score > 0
                /\ pages_data[i].relevance_score = pages_data[j].relevance_score
                /\ pages_data[j] \in Range(top_pages) )
              => /\ pages_data[i] \in Range(top_pages)
                 /\ PosIn(top_pages, pages_data[i]) < PosIn(top_pages, pages_data[j])

\* a tie straddles the K-th position: of two pages with the same score only
\* the earlier one is a top page
C9_Witness ==
    /\ Selected
    /\ \E i, j \in 1..Len(pages_data) :
          /\ i < j
          /\ pages_data[i].relevance_score = pages_data[j].relevance_score
          /\ pages_data[i] \in Range(top_pages)
          /\ pages_data[j] \notin Range(top_pages)
          /\ pages_data[j].relevance_score > 0

\* C10: once a page whose text got one more occurrence of a keyword is scored
\* again, its score is the score before plus KEYWORD_SCORE
C10_Monotonic ==
    (edit # NoEdit /\ edit.page \in scored) =>
        pages_data[edit.page].relevance_score = edit.old_score + KEYWORD_SCORE

\* the scorer has processed page i and its text was not edited since
IsScored(i) == i \in 1..Len(pages_data) /\ i \in scored

\* the last call was calculate_relevance_score
ScorerCalled == calls # <<>> /\ calls[Len(calls)] = "calculate_relevance_score"

\* C11: the table bonus is flat: the score of a scored page exceeds its
\* keyword points by TABLE_BONUS_SCORE when has_tables is true, however many
\* tables the page has, and by nothing when it is false; a page with several
\* tables gets the score of the page that has only the first of them, when
\* both have the same keyword points
C11_FlatTableBonus ==
    /\ \A i \in 1..Len(pages_data) :
          IsScored(i) =>
            pages_data[i].relevance_score - KeywordPoints(FullText(pages_data[i]), 1)
                = IF pages_data[i].has_tables THEN TABLE_BONUS_SCORE ELSE 0
    /\ \A i \in 1..Len(pages_data) :
          LET page == pages_data[i]
              one  == [ page EXCEPT !.tables = <<Head(page.tables)>> ]
          IN  ( /\ IsScored(i)
                /\ page.tables # <<>>
                /\ KeywordPoints(FullText(one), 1) = KeywordPoints(FullText(page), 1) )
              => page.relevance_score = RelevanceScore(one)

\* a page with five tables has been scored and got the score of the page
\* with the same text and one table
C11_Witness ==
    /\ IsScored(1)
    /\ Len(pages_data[1].tables) = 5
    /\ pages_data[1].relevance_score
          = RelevanceScore([ pages_data[1] EXCEPT !.tables = <<Table1>> ])

\* C12: calculate_relevance_score called again on a page it has scored leaves
\* the page as it is and returns the value it returned before: the stored
\* score does not feed into the new one
C12_Idempotent ==
    [][ ( /\ calls' = Append(calls, "calculate_relevance_score")
          /\ IsScored(returned'.page) )
        => /\ pages_data' = pages_data
           /\ returned'.value = pages_data[returned'.page].relevance_score ]_vars

\* the scorer was called twice in a row on a page of positive score
C12_Witness ==
    /\ Len(calls) >= 2
    /\ calls[1] = "calculate_relevance_score"
    /\ calls[2] = "calculate_relevance_score"
    /\ edit = NoEdit
    /\ pages_data[1].relevance_score > 0

\* C13: when calculate_relevance_score returns v for a page, the page's
\* relevance_score is v and its page_num, text, tables and has_tables are
\* what they were
C13_StoresAndReturns ==
    [][ calls' = Append(calls, "calculate_relevance_score")
        => /\ Len(pages_data') = Len(pages_data)
           /\ pages_data'[returned'.page].relevance_score = returned'.value
           /\ \A i \in 1..Len(pages_data) :
                 /\ pages_data'[i].page_num = pages_data[i].page_num
                 /\ pages_data'[i].text = pages_data[i].text
                 /\ pages_data'[i].tables = pages_data[i].tables
                 /\ pages_data'[i].has_tables = pages_data[i].has_tables ]_vars

\* the scorer has returned a positive value for a page with text and tables
C13_Witness ==
    /\ ScorerCalled
    /\ returned.page = 1
    /\ returned.value > TABLE_BONUS_SCORE
    /\ pages_data[1].relevance_score = returned.value
    /\ pages_data[1].tables # <<>>

\* score_all_pages has run in prepare_pdf_payload
ScoringDone == "score_all_pages" \in Range(calls)

\* C14: after score_all_pages the list holds the extracted pages, as many and
\* in the same order, each with the scorer's value for its content as
\* relevance_score and nothing else changed
C14_ScoreAllInPlace ==
    ScoringDone =>
        LET extracted == ProcessPdf(pdf)
        IN  /\ Len(pages_data) = Len(extracted)
            /\ Len(pages_data) = result.pages_analyzed
            /\ \A i \in 1..Len(extracted) :
                  pages_data[i] =
                      [ extracted[i] EXCEPT !.relevance_score = RelevanceScore(extracted[i]) ]

\* a document whose first page scores 0 and whose second page scores more
C14_Witness ==
    /\ pc = "step3"
    /\ Len(pages_data) = 2
    /\ pages_data[1].relevance_score = 0
    /\ pages_data[2].relevance_score > 0

\* C15: select_relevant_pages and construct_payload leave the list of pages
\* and every field of every page as they were, and construct_payload leaves
\* the selected list as it was
C15_NoMutation ==
    [][ /\ ( \/ calls' = Append(calls, "select_relevant_pages")
             \/ calls' = Append(calls, "construct_payload") )
           => pages_data' = pages_data
        /\ calls' = Append(calls, "construct_payload")
           => selected_pages' = selected_pages ]_vars

\* a run has built a payload after a selection whose descending sort put a
\* later page before an earlier one
C15_Witness ==
    /\ pc = "returned"
    /\ payload # None
    /\ Len(top_pages) >= 2
    /\ top_pages[1].page_num > top_pages[2].page_num

\* the last call was construct_payload
PayloadCalled == calls # <<>> /\ calls[Len(calls)] = "construct_payload"

\* C16: construct_payload on an empty list returns the empty string
C16_EmptyPayload ==
    (PayloadCalled /\ selected_pages = <<>>) => payload = <<"">>

\* a caller has called construct_payload on the empty list
C16_Witness ==
    /\ PayloadCalled
    /\ pc = "caller"
    /\ selected_pages = <<>>
    /\ payload = <<"">>

\* the page header construct_payload writes for page number n
HeaderOf(n) == "\n--- PAGE " \o IntToStr(n) \o " ---\n"

\* the least element of a non-empty set of positions
Least(S) == CHOOSE i \in S : \A j \in S : i <= j

\* where the block of the i-th selected page starts in the payload text
BlockStart(text, i) == Least(Occurrences(text, HeaderOf(selected_pages[i].page_num)))

\* the position behind the block of the i-th selected page
BlockEnd(text, i) ==
    IF i < Len(selected_pages) THEN BlockStart(text, i + 1) ELSE Len(text) + 1

\* sub occurs in text at a position p with from <= p and p + Len(sub) <= to
OccursWithin(text, sub, from, to) ==
    \E p \in Occurrences(text, sub) : from <= p /\ p + Len(sub) <= to

\* C17: in the payload every selected page has exactly one header; the
\* headers come in the order of the list, the first at the start; between a
\* page's header and the next one the payload holds, for a text that is not
\* blank, the [TEXT] marker followed by the trimmed text, and for every table
\* the table string behind a [TABLES] marker (and before the [TEXT] marker)
C17_RoundTrip ==
    (PayloadCalled /\ payload # None /\ selected_pages # <<>>) =>
        LET text == payload[1]
            n    == Len(selected_pages)
        IN  /\ \A i \in 1..n :
                  Cardinality(Occurrences(text, HeaderOf(selected_pages[i].page_num))) = 1
            /\ BlockStart(text, 1) = 1
            /\ \A i \in 1..n : BlockStart(text, i) < BlockEnd(text, i)
            /\ \A i \in 1..n :
                  LET page    == selected_pages[i]
                      from    == BlockStart(text, i)
                      to      == BlockEnd(text, i)
                      trimmed == Strip(page.text)
                      marks   == { p \in Occurrences(text, "\n[TABLES]\n") : from < p /\ p < to }
                  IN  /\ trimmed # "" =>
                          OccursWithin(text, "\n[TEXT]\n" \o trimmed \o "\n", from, to)
                      /\ \A k \in 1..Len(page.tables) :
                          /\ marks # {}
                          /\ OccursWithin(text, page.tables[k] \o "\n", Least(marks), to)
                          /\ trimmed # "" =>
                                \E q \in Occurrences(text, "\n[TEXT]\n" \o trimmed) :
                                    OccursWithin(text, page.tables[k], Least(marks), q + 1)

\* a payload of two pages, the first with text only, the second with a table only
C17_Witness ==
    /\ pc = "returned"
    /\ payload # None
    /\ Len(selected_pages) = 2
    /\ selected_pages[1].tables = <<>> /\ Strip(selected_pages[1].text) # ""
    /\ selected_pages[2].tables # <<>> /\ Strip(selected_pages[2].text) = ""

\* the stages of prepare_pdf_payload in their order
Stages == << "process_pdf", "score_all_pages", "select_relevant_pages", "construct_payload" >>

\* C18: in a run of prepare_pdf_payload the calls made so far are the first
\* stages in their order, each once: all pages are scored, by one
\* score_all_pages, before the selection, and the selection is made before
\* the payload is built
C18_StageOrder ==
    /\ Len(calls) <= Len(Stages)
    /\ \A i \in 1..Len(calls) : calls[i] = Stages[i]
    /\ "select_relevant_pages" \in Range(calls) =>
          /\ scored = 1..Len(pages_data)
          /\ \A i \in 1..Len(pages_data) :
                pages_data[i].relevance_score = RelevanceScore(pages_data[i])
    /\ payload # None => selected_pages # <<>>

\* a run has gone through all four stages
C18_Witness ==
    /\ pc = "returned"
    /\ calls = Stages
    /\ Len(pages_data) >= 2
    /\ payload # None

\* C19: every page of the run has has_tables true exactly when its tables are
\* not empty, so the scorer adds the table bonus to exactly the pages for
\* which construct_payload writes a [TABLES] section
C19_HasTablesIffTables ==
    /\ \A p \in Range(pages_data) \cup Range(selected_pages) :
          p.has_tables <=> (p.tables # <<>>)
    /\ ScoringDone =>
          \A p \in Range(pages_data) :
              (p.relevance_score - KeywordPoints(FullText(p), 1) = TABLE_BONUS_SCORE)
              <=> (Occurrences(PagePart(p), "\n[TABLES]\n") # {})

\* a payload holds a page with a table, from a PDF page on which a table
\* failed to render
C19_Witness ==
    /\ pc = "returned"
    /\ payload # None
    /\ \E i \in 1..Len(selected_pages) :
          /\ selected_pages[i].has_tables
          /\ "" \in Range(pdf.pages[selected_pages[i].page_num].tables)
    /\ \E p \in Range(pages_data) : ~p.has_tables

\* the top pages by rank: a positive page is one when fewer than K positive
\* pages have a higher score, or the same score and a lower page number
ExpectedTop ==
    { p \in Positive :
        Cardinality({ q \in Positive :
                        \/ q.relevance_score > p.relevance_score
                        \/ /\ q.relevance_score = p.relevance_score
                           /\ q.page_num < p.page_num }) < TOP_PAGES_TO_SELECT }

\* their page numbers, with the neighbours inside 1..N when these are included
ExpectedNums ==
    { p.page_num : p \in ExpectedTop }
    \cup (IF INCLUDE_NEIGHBOR_PAGES
          THEN { n \in 1..Len(pages_data) :
                   \E p \in ExpectedTop : n = p.page_num - 1 \/ n = p.page_num + 1 }
          ELSE {})

\* C20: for a document of pages 1..N the page numbers select_relevant_pages
\* returns are those of the top pages, plus p-1 >= 1 and p+1 <= N for every
\* top page p when neighbours are included, and no others
C20_ExactSelection ==
    (Selected /\ IsDocument) =>
        /\ Range(top_pages) = ExpectedTop
        /\ Range(PageNums(selected_pages)) = ExpectedNums
        /\ Len(selected_pages) = Cardinality(ExpectedNums)

\* a positive page is left out while a page of score 0 is taken as a neighbour
C20_Witness ==
    /\ Selected
    /\ IsDocument
    /\ INCLUDE_NEIGHBOR_PAGES
    /\ \E p \in Positive : p \notin Range(selected_pages)
    /\ \E p \in Range(selected_pages) : p.relevance_score = 0
    /\ Len(selected_pages) >= 3

\* the text of a page followed by a space and each of its tables, as written
RECURSIVE RawCorpus(_, _)
RawCorpus(text, tables) ==
    IF tables = <<>> THEN text
    ELSE RawCorpus(text \o " " \o Head(tables), Tail(tables))

\* the positions of s at which sub occurs when case is ignored
OccurrencesIgnoringCase(s, sub) ==
    { i \in 1..(Len(s) - Len(sub) + 1) : Lower(SubSeq(s, i, i + Len(sub) - 1)) = Lower(sub) }

\* the largest number of occurrences of which no two overlap
MaxNonOverlapping(occ, n) ==
    LET disjoint == { S \in SUBSET occ : \A i, j \in S : i < j => i + n <= j }
    IN  CHOOSE c \in 0..Cardinality(occ) :
            /\ \E S \in disjoint : Cardinality(S) = c
            /\ \A S \in disjoint : Cardinality(S) <= c

RECURSIVE SumOfCounts(_, _)
\* the sum of those numbers over the entries k.. of the keyword list
SumOfCounts(corpus, k) ==
    IF k > Len(RELEVANCE_KEYWORDS) THEN 0
    ELSE MaxNonOverlapping(OccurrencesIgnoringCase(corpus, RELEVANCE_KEYWORDS[k]),
                           Len(RELEVANCE_KEYWORDS[k]))
         + SumOfCounts(corpus, k + 1)

\* C21: the score of a scored page is KEYWORD_SCORE times the sum, over every
\* entry of the keyword list, of the number of non-overlapping occurrences of
\* the entry, case ignored, in the text followed by a space and each table,
\* plus TABLE_BONUS_SCORE if has_tables; it is never negative
C21_ScoreFormula ==
    \A i \in 1..Len(pages_data) :
        IsScored(i) =>
            /\ pages_data[i].relevance_score
                 = KEYWORD_SCORE * SumOfCounts(RawCorpus(pages_data[i].text, pages_data[i].tables), 1)
                   + (IF pages_data[i].has_tables THEN TABLE_BONUS_SCORE ELSE 0)
            /\ pages_data[i].relevance_score >= 0

\* a scored page in which two occurrences of a keyword overlap, in capitals
C21_Witness ==
    /\ IsScored(1)
    /\ \E k \in 1..Len(RELEVANCE_KEYWORDS) :
          LET occ == OccurrencesIgnoringCase(pages_data[1].text, RELEVANCE_KEYWORDS[k])
          IN  /\ Cardinality(occ) = 2
              /\ MaxNonOverlapping(occ, Len(RELEVANCE_KEYWORDS[k])) = 1
              /\ Occurrences(pages_data[1].text, RELEVANCE_KEYWORDS[k]) # occ

\* the block of the i-th selected page in the payload text
Block(text, i) == SubSeq(text, BlockStart(text, i), BlockEnd(text, i) - 1)

\* s begins with prefix
StartsWith(s, prefix) == Len(s) >= Len(prefix) /\ SubSeq(s, 1, Len(prefix)) = prefix

\* what is left of s behind its first n characters
Behind(s, n) == SubSeq(s, n + 1, Len(s))

RECURSIVE IsTableLines(_, _)
\* s is every table of the list, in order, each followed by a newline, and
\* after them exactly rest
IsTableLines(s, tables) ==
    IF tables = <<>> THEN s = ""
    ELSE /\ StartsWith(s, Head(tables) \o "\n")
         /\ IsTableLines(Behind(s, Len(Head(tables)) + 1), Tail(tables))

\* C22: the block of every page in the payload is the page header, then, if
\* and only if the page has a table, the [TABLES] marker and every table in
\* order, each followed by a newline, then, if and only if the trimmed text
\* is not blank, the [TEXT] marker, the trimmed text and a newline; a page
\* with neither gives its header only
C22_PageBlock ==
    (PayloadCalled /\ payload # None /\ selected_pages # <<>>) =>
        \A i \in 1..Len(selected_pages) :
            LET page     == selected_pages[i]
                block    == Block(payload[1], i)
                header   == HeaderOf(page.page_num)
                trimmed  == Strip(page.text)
                textpart == IF trimmed # "" THEN "\n[TEXT]\n" \o trimmed \o "\n" ELSE ""
                body     == Behind(block, Len(header))
                middle   == SubSeq(body, 1, Len(body) - Len(textpart))
            IN  /\ StartsWith(block, header)
                /\ Len(body) >= Len(textpart)
                /\ Behind(body, Len(middle)) = textpart
                /\ (page.tables # <<>>) <=> StartsWith(middle, "\n[TABLES]\n")
                /\ page.tables # <<>> => IsTableLines(Behind(middle, Len("\n[TABLES]\n")), page.tables)
                /\ page.tables = <<>> => middle = ""
                /\ (trimmed # "") <=> (Occurrences(block, "\n[TEXT]\n") # {})
                /\ (page.tables = <<>> /\ trimmed = "") => block = header

\* a payload with a page of header only and a page with a table and text
C22_Witness ==
    /\ pc = "returned"
    /\ payload # None
    /\ \E i \in 1..Len(selected_pages) :
          selected_pages[i].tables = <<>> /\ Strip(selected_pages[i].text) = ""
    /\ \E i \in 1..Len(selected_pages) :
          selected_pages[i].tables # <<>> /\ Strip(selected_pages[i].text) # ""

\* C23: prepare_pdf_payload returns a payload that is not None exactly when
\* the returned status is "success"; after a selection that is not empty the
\* payload is not empty, and the error "Failed to construct payload" is
\* never returned
C23_PayloadIffSuccess ==
    pc = "returned" =>
        /\ (payload # None) <=> (result.status = "success")
        /\ payload # None => payload[1] # ""
        /\ selected_pages # <<>> => payload # None
        /\ result.error # "Failed to construct payload"

\* a run returned a payload for a selection whose pages have no text
C23_Witness ==
    /\ pc = "returned"
    /\ result.status = "success"
    /\ payload # None
    /\ selected_pages # <<>>
    /\ \A i \in 1..Len(selected_pages) : Strip(selected_pages[i].text) = ""

\* the LLM extraction step was invoked
LlmCalled == "extract_triggers_with_llm" \in Range(calls)

\* C24: in process_single_pdf the LLM is called only after construct_payload
\* built a payload for the document; when the preparation ended with status
\* "no_matches" or "error" the LLM is not called and the result returned has
\* that status and no triggers
C24_LlmOnlyAfterPayload ==
    /\ LlmCalled =>
          /\ payload # None /\ payload[1] # ""
          /\ calls = Append(Stages, "extract_triggers_with_llm")
    /\ (pc = "done" /\ payload = None) =>
          /\ ~LlmCalled
          /\ result.status \in {"no_matches", "error"}
          /\ result.triggers = <<>>
    /\ (pc = "done" /\ result.status \in {"no_matches", "error"}) => ~LlmCalled

\* process_single_pdf returned for a document without relevant pages
C24_Witness ==
    /\ pc = "done"
    /\ result.status = "no_matches"
    /\ pages_data # <<>>
    /\ ~LlmCalled

\* page p is next to a top page
AdjacentToTop(p) ==
    \E t \in Range(top_pages) : p.page_num = t.page_num - 1 \/ p.page_num = t.page_num + 1

\* C25: every top page is in the list select_relevant_pages returns for a
\* document, and a page of score 0 is in it exactly when neighbours are
\* included and the page is next to a top page
C25_NeighboursWhateverScore ==
    (Selected /\ IsDocument) =>
        /\ Range(top_pages) \subseteq Range(selected_pages)
        /\ \A p \in Range(pages_data) :
              p.relevance_score = 0 =>
                  ( p \in Range(selected_pages)
                    <=> (INCLUDE_NEIGHBOR_PAGES /\ AdjacentToTop(p)) )

\* a page of score 0 is returned as a neighbour, another one is not returned
C25_Witness ==
    /\ Selected
    /\ IsDocument
    /\ top_pages # <<>>
    /\ \E p \in Range(selected_pages) : p.relevance_score = 0 /\ AdjacentToTop(p)
    /\ \E p \in Range(pages_data) : p.relevance_score = 0 /\ p \notin Range(selected_pages)

\* C26: select_relevant_pages returns at most 3 * K pages when neighbours are
\* included and at most K when they are not, never more than it was given,
\* and at least one page when some input page has a positive score
C26_SelectionBounds ==
    Selected =>
        /\ Len(selected_pages) <= (IF INCLUDE_NEIGHBOR_PAGES THEN 3 ELSE 1) * TOP_PAGES_TO_SELECT
        /\ Len(selected_pages) <= Len(pages_data)
        /\ Positive # {} => Len(selected_pages) >= 1

\* the bound 3 * K is met although more pages have a positive score
C26_Witness ==
    /\ Selected
    /\ INCLUDE_NEIGHBOR_PAGES
    /\ Len(selected_pages) = 3 * TOP_PAGES_TO_SELECT
    /\ Cardinality(Positive) > Len(selected_pages)

\* the loop of run_batch_process has ended
BatchExited == pc = "exit"

\* the files of the folder for which prepare_pdf_payload gives a payload
WithPayload ==
    { f \in Range(all_pdfs) :
        PreparePdfPayload(f.doc, TOP_PAGES_TO_SELECT, INCLUDE_NEIGHBOR_PAGES).payload # None }

\* C27: when run_batch_process has ended and no call raised, every PDF for
\* which a payload can be built is recorded in the output or was submitted
\* in a batch of the run
C27_AllSubmitted ==
    (BatchExited /\ ~raised) =>
        \A f \in WithPayload :
            f.name \in GetProcessedFiles(output) \/ f.name \in Range(submitted)

\* C28: the loop of run_batch_process terminates, because an iteration ends
\* the loop or leaves fewer files to process than there were
C28_Terminates ==
    /\ <>BatchExited
    /\ [][ pc = "refresh" =>
             (pc' = "exit" \/ Len(files_to_process') < Len(files_to_process)) ]_vars

\* the loop has ended after a batch in which no file gave a payload
C28_Witness ==
    /\ BatchExited
    /\ ~raised
    /\ batch_files # <<>>
    /\ result_metas = <<>>
    /\ files_to_process # <<>>
    /\ submitted # <<>>

\* C29: within a run no PDF is submitted twice; a batch holds no PDF that is
\* recorded in the output when the batch is formed; after the results were
\* saved every request of the batch is recorded, with status "error" when it
\* got no answer or an error
C29_NoResubmission ==
    /\ \A i, j \in 1..Len(submitted) : i # j => submitted[i] # submitted[j]
    /\ pc \in {"submit", "wait", "retrieve"} =>
          Names(batch_files) \cap GetProcessedFiles(output) = {}
    /\ (pc = "refresh" /\ result_metas # <<>>) =>
          \A i \in 1..Len(result_metas) :
              \E j \in 1..Len(output) :
                  /\ output[j].file = result_metas[i].file
                  /\ output[j].status = IF results_map[i] = "triggers" THEN "success" ELSE "error"

\* two batches were submitted and a request without answer was recorded
C29_Witness ==
    /\ BatchExited
    /\ ~raised
    /\ Len(submitted) > BATCH_SIZE
    /\ \E j \in 1..Len(output) : output[j].error = "No response from Batch API"

\* process_pdf has returned in prepare_pdf_payload
Extracted == calls # <<>> /\ calls[1] = "process_pdf"

\* C30: the list process_pdf returns holds the pages of the document in
\* order with page_num = position, all of them when nothing raised and those
\* before the failing page otherwise, so that its length is its last page
\* number and no selected page number exceeds it; prepare_pdf_payload
\* reports the extraction error exactly when the list is empty
C30_ContiguousPages ==
    Extracted =>
        /\ \A i \in 1..Len(pages_data) :
              /\ pages_data[i].page_num = i
              /\ pages_data[i].text = pdf.pages[i].text
        /\ Len(pages_data) = (IF pdf.error_at = 0 THEN Len(pdf.pages) ELSE pdf.error_at - 1)
        /\ pages_data # <<>> => pages_data[Len(pages_data)].page_num = Len(pages_data)
        /\ \A n \in selected_page_nums : n \in 1..Len(pages_data)
        /\ (pages_data = <<>>) <=> (result.error = "Failed to extract pages from PDF")
        /\ pages_data = <<>> => result.status = "error"
        /\ (pages_data # <<>> /\ pc = "returned") => result.status # "error"

\* a document failed at its second page and the run went on with the first
C30_Witness ==
    /\ pc = "returned"
    /\ pdf.error_at > 1
    /\ Len(pages_data) = pdf.error_at - 1
    /\ result.status = "success"
    /\ result.pages_analyzed = Len(pages_data)
====
